---- MODULE Spec2Model ----
(***************************************************************************)
(* The iterative question-answering loop of graph/workflow.py, driven by   *)
(* run_qa_workflow of 2main.py: generate, evaluate, then search, reflect   *)
(* or finalize as should_continue decides.                                 *)
(*                                                                         *)
(* Text is modelled as a sequence of lexical tokens, which is what the two *)
(* regular expressions and json.loads of extract_json_from_text see:       *)
(* code fences, braces, prose, a bare number, a member key, and groups of  *)
(* object members.                                                         *)
(***************************************************************************)
EXTENDS Integers, Sequences, FiniteSets, TLC

\* ------------------------------------------------------------------ bounds

\* Largest max_iterations a run is started with.
MaxIterations == 3

\* Longest evaluation response of the parser specification, in segments.
MaxSegments == 3

\* Last instant of the clock in the store specifications, in half seconds.
MaxInstant == 3

\* Most entries a manager logs to one session in the store specifications.
MaxEntries == 2

\* ---------------------------------------------------- JSON values (Python)

\* A JSON number, string or null as the value of "score".
IntScore(n) == [t |-> "int", v |-> n]

StrScore(n) == [t |-> "str", v |-> n]

\* A Python dict with the keys of an evaluation record; a key not in keys is
\* absent and its field holds the default that dict.get is called with.
EmptyDict ==
    [keys |-> {}, score |-> IntScore(0), is_acceptable |-> FALSE,
     needs_search |-> FALSE, strengths |-> <<>>, weaknesses |-> <<>>,
     suggestions |-> <<>>]

\* dict.update: the members of d2 override those of d1 (json.loads keeps the
\* last of two members with one key).
DictUpdate(d1, d2) ==
    [keys |-> d1.keys \cup d2.keys,
     score |-> IF "score" \in d2.keys THEN d2.score ELSE d1.score,
     is_acceptable |-> IF "is_acceptable" \in d2.keys THEN d2.is_acceptable
                       ELSE d1.is_acceptable,
     needs_search |-> IF "needs_search" \in d2.keys THEN d2.needs_search
                      ELSE d1.needs_search,
     strengths |-> IF "strengths" \in d2.keys THEN d2.strengths ELSE d1.strengths,
     weaknesses |-> IF "weaknesses" \in d2.keys THEN d2.weaknesses ELSE d1.weaknesses,
     suggestions |-> IF "suggestions" \in d2.keys THEN d2.suggestions
                     ELSE d1.suggestions]

\* The result of json.loads or of extract_json_from_text: None, a number
\* (non-zero, so truthy) or a dict.
NoneValue == [kind |-> "none", d |-> EmptyDict]

NumValue == [kind |-> "num", d |-> EmptyDict]

DictValue(d) == [kind |-> "dict", d |-> d]

\* ------------------------------------------------------------- text tokens

\* Groups of object members an evaluation response can hold, e.g. M_HI is
\*   "score": 9, "is_acceptable": true, "strengths": [...], ...
AllKeys ==
    {"score", "is_acceptable", "strengths", "weaknesses", "suggestions",
     "needs_search"}

MemberDict(tok) ==
    CASE tok = "M_HI" ->
           [keys |-> AllKeys, score |-> IntScore(9), is_acceptable |-> TRUE,
            needs_search |-> FALSE, strengths |-> <<"clear">>,
            weaknesses |-> <<>>, suggestions |-> <<>>]
      [] tok = "M_LO" ->
           [keys |-> AllKeys, score |-> IntScore(4), is_acceptable |-> FALSE,
            needs_search |-> FALSE, strengths |-> <<"short">>,
            weaknesses |-> <<"vague">>, suggestions |-> <<"add examples">>]
      [] tok = "M_SEARCH" ->
           [keys |-> AllKeys, score |-> IntScore(4), is_acceptable |-> FALSE,
            needs_search |-> TRUE, strengths |-> <<"short">>,
            weaknesses |-> <<"outdated">>, suggestions |-> <<>>]
      [] tok = "M_MIN" ->
           [EmptyDict EXCEPT !.keys = {"score", "is_acceptable"},
                             !.score = IntScore(7), !.is_acceptable = TRUE]
      [] tok = "M_ODD" ->
           [EmptyDict EXCEPT !.keys = {"score", "is_acceptable", "needs_search"},
                             !.score = IntScore(6), !.is_acceptable = TRUE,
                             !.needs_search = TRUE]
      [] tok = "M_STR" ->
           [EmptyDict EXCEPT !.keys = {"score", "is_acceptable"},
                             !.score = StrScore(8), !.is_acceptable = TRUE]
      [] tok = "M_PART" ->
           [EmptyDict EXCEPT !.keys = {"strengths"}, !.strengths = <<"clear">>]
      [] OTHER -> EmptyDict

MemberTokens == {"M_HI", "M_LO", "M_SEARCH", "M_MIN", "M_ODD", "M_STR", "M_PART"}

\* FENCE is ``` (with or without the json tag), LB and RB are the braces, TXT
\* is prose without braces or backticks, NUM is a bare number such as 7, KEY
\* is a member key with its colon, "k": .
\* SLB is a member whose string value holds an opening brace, "s": "{" : a
\* brace for the regular expressions, a member for json.loads.
Tokens == {"FENCE", "LB", "RB", "TXT", "NUM", "KEY", "SLB"} \cup MemberTokens

IsOpen(tok) == tok \in {"LB", "SLB"}

Slice(s, i, j) == SubSeq(s, i, j)

\* ------------------------------------------------------------- json.loads

\* Parses the members of an object from position p (just after its opening
\* brace) up to its closing brace: [ok, next, d], next being the position
\* after the closing brace.
RECURSIVE ParseMembers(_, _, _)
ParseMembers(s, p, d) ==
    IF p > Len(s) THEN [ok |-> FALSE, next |-> p, d |-> d]
    ELSE IF s[p] = "RB" THEN [ok |-> TRUE, next |-> p + 1, d |-> d]
    ELSE IF s[p] \in MemberTokens
      THEN ParseMembers(s, p + 1, DictUpdate(d, MemberDict(s[p])))
    ELSE IF s[p] = "SLB"
      THEN ParseMembers(s, p + 1, [d EXCEPT !.keys = @ \cup {"s"}])
    ELSE IF s[p] = "KEY" /\ p + 1 <= Len(s) /\ s[p + 1] = "NUM"
      THEN ParseMembers(s, p + 2, [d EXCEPT !.keys = @ \cup {"k"}])
    ELSE IF s[p] = "KEY" /\ p + 1 <= Len(s) /\ s[p + 1] = "LB"
      THEN LET inner == ParseMembers(s, p + 2, EmptyDict)
           IN  IF inner.ok
                 THEN ParseMembers(s, inner.next, [d EXCEPT !.keys = @ \cup {"k"}])
                 ELSE [ok |-> FALSE, next |-> p, d |-> d]
    ELSE [ok |-> FALSE, next |-> p, d |-> d]

\* json.loads(s): the value when all of s is one JSON value, None (the
\* except branch of the caller) otherwise.
JsonLoads(s) ==
    IF s = <<"NUM">> THEN NumValue
    ELSE IF Len(s) >= 2 /\ s[1] = "LB"
      THEN LET r == ParseMembers(s, 2, EmptyDict)
           IN  IF r.ok /\ r.next = Len(s) + 1 THEN DictValue(r.d) ELSE NoneValue
    ELSE NoneValue

\* ------------------------------------------- extract_json_from_text

Min(S) == CHOOSE x \in S : \A y \in S : x <= y

\* re.search(r'```(?:json)?\s*(\{.*?\})\s*```', text, re.DOTALL): the
\* positions j of a closing brace followed by a fence, for an opening fence
\* at i followed by an opening brace.
FenceEnds(s, i) ==
    {j \in (i + 2)..(Len(s) - 1) : s[j] = "RB" /\ s[j + 1] = "FENCE"}

FenceStarts(s) ==
    {i \in 1..(Len(s) - 1) :
        s[i] = "FENCE" /\ s[i + 1] = "LB" /\ FenceEnds(s, i) # {}}

\* group(1) of the leftmost match, the lazy .*? taking the nearest end.
FencedGroup(s) ==
    LET i == Min(FenceStarts(s))
    IN  Slice(s, i + 1, Min(FenceEnds(s, i)))

\* re.search(r'\{[^{}]*(?:\{[^{}]*\}[^{}]*)*\}', text, re.DOTALL) matched
\* from just after an opening brace: the position of the closing brace of
\* the match, or 0. depth is 1 inside the inner group, 0 outside of it.
RECURSIVE BraceScan(_, _, _)
BraceScan(s, p, depth) ==
    IF p > Len(s) THEN 0
    ELSE IF s[p] = "RB" THEN (IF depth = 1 THEN BraceScan(s, p + 1, 0) ELSE p)
    ELSE IF IsOpen(s[p]) THEN (IF depth = 0 THEN BraceScan(s, p + 1, 1) ELSE 0)
    ELSE BraceScan(s, p + 1, depth)

BraceStarts(s) == {i \in 1..Len(s) : IsOpen(s[i]) /\ BraceScan(s, i + 1, 0) # 0}

\* group(0) of the leftmost match. A match that starts at the brace inside
\* a string starts with SLB, which json.loads rejects.
BraceGroup(s) ==
    LET i == Min(BraceStarts(s))
    IN  Slice(s, i, BraceScan(s, i + 1, 0))

\* The three attempts of extract_json_from_text, each the value it returns
\* or None when it does not match or json.loads raises.
AttemptFenced(text) ==
    IF FenceStarts(text) # {} THEN JsonLoads(FencedGroup(text)) ELSE NoneValue

AttemptBraces(text) ==
    IF BraceStarts(text) # {} THEN JsonLoads(BraceGroup(text)) ELSE NoneValue

AttemptWhole(text) == JsonLoads(text)

\* extract_json_from_text: the first attempt whose json.loads does not raise
\* returns, whatever keys its value holds.
extract_json_from_text(text) ==
    IF AttemptFenced(text).kind # "none" THEN AttemptFenced(text)
    ELSE IF AttemptBraces(text).kind # "none" THEN AttemptBraces(text)
    ELSE AttemptWhole(text)

\* ------------------------------------------------------------ the state

VARIABLES
    question,         \* QAState["question"]
    max_iterations,   \* QAState["max_iterations"]
    iteration_count,  \* QAState["iteration_count"]
    draft_answer,     \* QAState["draft_answer"]: [set, len], len its length
    evaluation,       \* QAState["evaluation"], EmptyDict while unset
    final_answer,     \* QAState["final_answer"]: [set, text]
    reflections,      \* QAState["reflections"]: [set, items]
    search_results,   \* QAState["search_results"]: [set, text]
    pc,               \* the node the graph runs next, "END" or "aborted"
    failure,          \* the exception that aborted the run, "none" otherwise
    lastNode,         \* the node that ran last, "START" before the first
    response,         \* the model's text of the last evaluate step
    nGenerate,        \* completed generate_answer steps
    nSearch,          \* completed search steps
    nReflect,         \* completed reflect steps
    nRouted,          \* times should_continue returned "reflect"
    sessions,         \* the sessions of memory/sessions.json, in file order
    current_session_id, \* MemoryManager.current_session_id
    result,           \* run_qa_workflow's result: <<>> is None, <<d>> a dict
    trace,            \* the nodes whose steps completed, in order
    evaluations,      \* the evaluations the evaluate steps stored, in order
    lastSearch,       \* what search.invoke did in the last search step
    now,              \* the instant datetime.now() returns, in half seconds
    writers,          \* each MemoryManager of the store specifications
    written,          \* what each of them has written to its session
    overlapped        \* a collection was written back after another write

vars ==
    <<question, max_iterations, iteration_count, draft_answer, evaluation,
      final_answer, reflections, search_results, pc, failure, lastNode,
      response, nGenerate, nSearch, nReflect, nRouted, sessions,
      current_session_id, result, trace, evaluations, lastSearch, now,
      writers, written, overlapped>>

\* The variables of the store specifications.
storeVars == <<now, writers, written, overlapped>>

\* The QAState dict the nodes and the router are called with.
State ==
    [question |-> question, max_iterations |-> max_iterations,
     iteration_count |-> iteration_count, draft_answer |-> draft_answer,
     evaluation |-> evaluation, final_answer |-> final_answer,
     reflections |-> reflections, search_results |-> search_results]

Unset == [set |-> FALSE, text |-> ""]

Str(text) == [set |-> TRUE, text |-> text]

\* bool(state.get(key)) of an Optional[str] field: unset, None and "" are
\* all falsy.
Truthy(field) == field.set /\ field.text # ""

RECURSIVE Join(_, _)
Join(items, sep) ==
    IF items = <<>> THEN ""
    ELSE IF Len(items) = 1 THEN items[1]
    ELSE items[1] \o sep \o Join(Tail(items), sep)

\* --------------------------------------------------------------- the nodes

\* Lengths of the drafts and texts of the final answer the model returns.
DraftLengths == {0, 1200, 1400, 2600}

\* The drafts of a whole run: an empty one, and one long enough for an
\* acceptable fallback evaluation.
RunDraftLengths == {0, 1400}

FinalTexts == {"", "polished answer"}

\* generate_answer_node returning a patch that also empties reflections.
generate_answer_node_resets(state, draftLen) ==
    [draft_answer |-> [set |-> TRUE, len |-> draftLen],
     iteration_count |-> state.iteration_count + 1,
     reflections |-> [set |-> TRUE, items |-> <<>>]]

\* generate_answer_node counting an iteration twice.
generate_answer_node_counts_twice(state, draftLen) ==
    [draft_answer |-> [set |-> TRUE, len |-> draftLen],
     iteration_count |-> state.iteration_count + 2]

\* generate_answer_node: the patch, for a draft of draftLen characters.
generate_answer_node(state, draftLen) ==
    [draft_answer |-> [set |-> TRUE, len |-> draftLen],
     iteration_count |-> state.iteration_count + 1]

\* max_results of TavilySearchResults.
MaxResults == 3

RECURSIVE FormatResults(_)
FormatResults(n) ==
    IF n = 0 THEN <<>>
    ELSE Append(FormatResults(n - 1),
                ToString(n) \o ". content\nSource: url")

\* search_tool_node: the patch when search.invoke returns n results, and
\* when it raises.
search_tool_node(state, n) ==
    [search_results |-> Str(Join(FormatResults(n), "\n\n"))]

search_tool_node_except(state) ==
    [search_results |-> Str("Search unavailable")]

\* The fallback evaluation of evaluate_answer_node.
Clamp(x, lo, hi) == IF x < lo THEN lo ELSE IF x > hi THEN hi ELSE x

FallbackEvaluation(state) ==
    LET iteration == state.iteration_count
        draft_len == state.draft_answer.len
        fallback_score == Clamp(draft_len \div 200, 5, 10)
    IN  [keys |-> AllKeys,
         score |-> IntScore(fallback_score),
         is_acceptable |-> (iteration >= 2 \/ fallback_score >= 7),
         strengths |-> <<"Answer provided">>,
         weaknesses |-> IF fallback_score >= 7 THEN <<>>
                        ELSE <<"Could be more detailed">>,
         suggestions |-> IF fallback_score >= 7 THEN <<>>
                         ELSE <<"Add more examples">>,
         needs_search |-> FALSE]

\* evaluate_answer_node for the model's response text: the patch, or the
\* TypeError of "k in evaluation" for a truthy value that is no container.
evaluate_answer_node(state, text) ==
    LET value == extract_json_from_text(text)
    IN  IF value.kind = "num"
          THEN [raised |-> "TypeError", evaluation |-> state.evaluation]
        ELSE IF value.kind = "dict" /\ value.d.keys # {}
                /\ {"score", "is_acceptable"} \subseteq value.d.keys
          THEN [raised |-> "none", evaluation |-> value.d]
        ELSE [raised |-> "none", evaluation |-> FallbackEvaluation(state)]

\* reflection_node: the patch.
NewReflection(state) ==
    LET ev == state.evaluation
    IN  "Iteration " \o ToString(state.iteration_count) \o ": "
        \o (IF ev.weaknesses # <<>>
              THEN "Address: " \o Join(ev.weaknesses, ", ") \o ". " ELSE "")
        \o (IF ev.suggestions # <<>>
              THEN "Improve: " \o Join(ev.suggestions, ", ") ELSE "")
        \o (IF ev.weaknesses = <<>> /\ ev.suggestions = <<>>
              THEN "Continue improving clarity and completeness" ELSE "")

\* reflection_node returning the new reflection alone.
reflection_node_replaces(state) ==
    [reflections |-> [set |-> TRUE, items |-> <<NewReflection(state)>>]]

reflection_node(state) ==
    [reflections |->
        [set |-> TRUE,
         items |-> Append(state.reflections.items, NewReflection(state))]]

\* finalize_answer_node keeping no empty text.
finalize_answer_node_truthy(state, text) ==
    [final_answer |-> IF text = "" THEN Unset ELSE Str(text)]

\* finalize_answer_node: the patch, for the model's text.
finalize_answer_node(state, text) == [final_answer |-> Str(text)]

\* The router without its iteration bound.
should_continue_unbounded(state) ==
    LET ev == state.evaluation
    IN  IF ev.is_acceptable /\ ev.score.t # "int" THEN "TypeError"
        ELSE IF ev.is_acceptable /\ ev.score.v >= 7 THEN "finalize"
        ELSE IF ev.needs_search /\ ~Truthy(state.search_results) THEN "search"
        ELSE "reflect"

\* The router finalizing only past the bound.
should_continue_past_bound(state) ==
    LET ev == state.evaluation
    IN  IF state.iteration_count > state.max_iterations THEN "finalize"
        ELSE IF ev.is_acceptable /\ ev.score.t # "int" THEN "TypeError"
        ELSE IF ev.is_acceptable /\ ev.score.v >= 7 THEN "finalize"
        ELSE IF ev.needs_search /\ ~Truthy(state.search_results) THEN "search"
        ELSE "reflect"

\* The router accepting only scores above 7.
should_continue_above_seven(state) ==
    LET ev == state.evaluation
    IN  IF state.iteration_count >= state.max_iterations THEN "finalize"
        ELSE IF ev.is_acceptable /\ ev.score.t # "int" THEN "TypeError"
        ELSE IF ev.is_acceptable /\ ev.score.v > 7 THEN "finalize"
        ELSE IF ev.needs_search /\ ~Truthy(state.search_results) THEN "search"
        ELSE "reflect"

\* The router finalizing on is_acceptable alone.
should_continue_trusts_flag(state) ==
    LET ev == state.evaluation
    IN  IF state.iteration_count >= state.max_iterations THEN "finalize"
        ELSE IF ev.is_acceptable THEN "finalize"
        ELSE IF ev.needs_search /\ ~Truthy(state.search_results) THEN "search"
        ELSE "reflect"

\* The router applying its iteration bound only to a positive max_iterations.
should_continue_positive_bound(state) ==
    LET ev == state.evaluation
    IN  IF state.max_iterations >= 1
           /\ state.iteration_count >= state.max_iterations THEN "finalize"
        ELSE IF ev.is_acceptable /\ ev.score.t # "int" THEN "TypeError"
        ELSE IF ev.is_acceptable /\ ev.score.v >= 7 THEN "finalize"
        ELSE IF ev.needs_search /\ ~Truthy(state.search_results) THEN "search"
        ELSE "reflect"

\* should_continue: the branch, or the TypeError of comparing a score that
\* is no number with 7.
should_continue(state) ==
    LET ev == state.evaluation
    IN  IF state.iteration_count >= state.max_iterations THEN "finalize"
        ELSE IF ev.is_acceptable /\ ev.score.t # "int" THEN "TypeError"
        ELSE IF ev.is_acceptable /\ ev.score.v >= 7 THEN "finalize"
        ELSE IF ev.needs_search /\ ~Truthy(state.search_results) THEN "search"
        ELSE "reflect"

\* --------------------------------------------------- the session store

\* dict.get(key, default) of a state dict, a node's patch included: a record
\* holds exactly its own keys.
Get(state, key, default) ==
    IF key \in DOMAIN state THEN state[key] ELSE default

\* The instants of datetime.now(), counted in half seconds. strftime to the
\* second gives the session id; isoformat keeps the instant, and two
\* isoformat strings compare as their instants do.
SecondOf(instant) == instant \div 2

\* MemoryManager.current_session_id before create_session.
NoSession == 0 - 1

NullScore == [t |-> "null", v |-> 0]

NoMetadata ==
    [set |-> FALSE, total_iterations |-> 0, search_used |-> FALSE,
     reflection_count |-> 0]

\* create_session: the session_data of a session created at the instants
\* nowId and nowStamp of its two calls of datetime.now().
NewSession(question_text, nowId, nowStamp) ==
    [keys |-> {"session_id", "timestamp", "question", "states",
               "final_answer", "metadata"},
     session_id |-> SecondOf(nowId),
     timestamp |-> nowStamp,
     question |-> question_text,
     states |-> <<>>,
     final_answer |-> Unset,
     metadata |-> [NoMetadata EXCEPT !.set = TRUE],
     complete_state |-> <<>>]

\* _save_session adding the session whatever the file holds.
_save_session_appends(all_sessions, session_data) ==
    Append(all_sessions, session_data)

\* _save_session: the sessions of the file after session_data is written,
\* in place of the first session with its id or at the end.
RECURSIVE _save_session(_, _)
_save_session(all_sessions, session_data) ==
    IF all_sessions = <<>> THEN <<session_data>>
    ELSE IF Head(all_sessions).session_id = session_data.session_id
      THEN <<session_data>> \o Tail(all_sessions)
    ELSE <<Head(all_sessions)>>
            \o _save_session(Tail(all_sessions), session_data)

\* _load_session: the first session with the id, or the stub of a session
\* the file does not hold.
RECURSIVE _load_session(_, _)
_load_session(all_sessions, session_id) ==
    IF all_sessions = <<>>
      THEN [keys |-> {"session_id", "states", "metadata"},
            session_id |-> session_id,
            timestamp |-> 0,
            question |-> "",
            states |-> <<>>,
            final_answer |-> Unset,
            metadata |-> NoMetadata,
            complete_state |-> <<>>]
    ELSE IF Head(all_sessions).session_id = session_id
      THEN Head(all_sessions)
    ELSE _load_session(Tail(all_sessions), session_id)

create_session(all_sessions, question_text, nowId, nowStamp) ==
    _save_session(all_sessions, NewSession(question_text, nowId, nowStamp))


\* log_state: the file after node_name is logged with the dict state, which
\* is whatever the caller passes, a node's patch included. The entry's own
\* timestamp, which nothing reads, is left out.
StateEntry(node_name, state) ==
    LET ev == Get(state, "evaluation", EmptyDict)
    IN  [node |-> node_name,
         iteration |-> Get(state, "iteration_count", 0),
         has_draft |->
            LET draft == Get(state, "draft_answer", [set |-> FALSE, len |-> 0])
            IN  draft.set /\ draft.len > 0,
         has_evaluation |-> ev.keys # {},
         has_search |-> Truthy(Get(state, "search_results", Unset)),
         reflection_count |->
            Len(Get(state, "reflections", [set |-> FALSE, items |-> <<>>]).items),
         evaluation_score |->
            IF "score" \in ev.keys THEN ev.score ELSE NullScore]

\* log_state keeping the newest entry alone.
log_state_keeps_last(all_sessions, session_id, node_name, state) ==
    IF session_id = NoSession THEN all_sessions
    ELSE LET session_data == _load_session(all_sessions, session_id)
             state_entry == StateEntry(node_name, state)
         IN  _save_session(all_sessions,
                [session_data EXCEPT
                    !.states = <<state_entry>>,
                    !.metadata =
                        [set |-> TRUE,
                         total_iterations |-> state_entry.iteration,
                         search_used |-> state_entry.has_search,
                         reflection_count |-> state_entry.reflection_count]])

\* log_state writing a session of the new entry alone.
LoggedSession_keeps_last(session_data, node_name, state) ==
    LET state_entry == StateEntry(node_name, state)
    IN  [session_data EXCEPT
            !.states = <<state_entry>>,
            !.metadata =
                [set |-> TRUE,
                 total_iterations |-> state_entry.iteration,
                 search_used |-> state_entry.has_search,
                 reflection_count |-> state_entry.reflection_count]]

\* log_state between _load_session and _save_session: the loaded session
\* with the entry appended and the metadata refreshed.
LoggedSession(session_data, node_name, state) ==
    LET state_entry == StateEntry(node_name, state)
    IN  [session_data EXCEPT
            !.states = Append(@, state_entry),
            !.metadata =
                [set |-> TRUE,
                 total_iterations |-> state_entry.iteration,
                 search_used |-> state_entry.has_search,
                 reflection_count |-> state_entry.reflection_count]]

log_state(all_sessions, session_id, node_name, state) ==
    IF session_id = NoSession THEN all_sessions
    ELSE _save_session(all_sessions,
            LoggedSession(_load_session(all_sessions, session_id),
                          node_name, state))

\* save_final_answer: the file after the answer and the complete_state, read
\* from the dict full_state with get, are written.
CompleteState(full_state) ==
    [question |-> IF "question" \in DOMAIN full_state
                    THEN Str(full_state.question) ELSE Unset,
     final_answer |-> Get(full_state, "final_answer", Unset),
     iterations |-> IF "iteration_count" \in DOMAIN full_state
                      THEN <<full_state.iteration_count>> ELSE <<>>,
     reflections |->
        Get(full_state, "reflections", [set |-> FALSE, items |-> <<>>]).items,
     evaluation |-> Get(full_state, "evaluation", EmptyDict)]

\* save_final_answer writing a session of the final answer alone.
FinalSession_drops_states(session_data, answer, full_state) ==
    [session_data EXCEPT
        !.keys = @ \cup {"final_answer", "complete_state"},
        !.states = <<>>,
        !.final_answer = Str(answer),
        !.complete_state = <<CompleteState(full_state)>>]

\* save_final_answer between _load_session and _save_session.
FinalSession(session_data, answer, full_state) ==
    [session_data EXCEPT
        !.keys = @ \cup {"final_answer", "complete_state"},
        !.final_answer = Str(answer),
        !.complete_state = <<CompleteState(full_state)>>]

save_final_answer(all_sessions, session_id, answer, full_state) ==
    IF session_id = NoSession THEN all_sessions
    ELSE _save_session(all_sessions,
            FinalSession(_load_session(all_sessions, session_id),
                         answer, full_state))

\* list.sort(key = timestamp, reverse = True): the sort is stable, sessions
\* of one timestamp keep their order.
RECURSIVE InsertByTimestamp(_, _)
InsertByTimestamp(sorted, session) ==
    IF sorted = <<>> THEN <<session>>
    ELSE IF Head(sorted).timestamp >= session.timestamp
      THEN <<Head(sorted)>> \o InsertByTimestamp(Tail(sorted), session)
    ELSE <<session>> \o sorted

RECURSIVE SortByTimestamp(_)
SortByTimestamp(all_sessions) ==
    IF all_sessions = <<>> THEN <<>>
    ELSE InsertByTimestamp(
            SortByTimestamp(SubSeq(all_sessions, 1, Len(all_sessions) - 1)),
            all_sessions[Len(all_sessions)])

\* get_session_history without reverse = True: oldest first.
get_session_history_oldest(all_sessions, limit) ==
    LET sorted == SortByTimestamp(all_sessions)
        newest == [i \in 1..Len(sorted) |-> sorted[Len(sorted) + 1 - i]]
    IN  [raised |-> "none",
         sessions |-> SubSeq(newest, 1, Min({limit, Len(newest)}))]

\* get_session_history: the limit most recent sessions, or the KeyError of a
\* session without "timestamp".
get_session_history(all_sessions, limit) ==
    IF \E i \in 1..Len(all_sessions) :
          "timestamp" \notin all_sessions[i].keys
      THEN [raised |-> "KeyError", sessions |-> <<>>]
    ELSE LET sorted == SortByTimestamp(all_sessions)
         IN  [raised |-> "none",
              sessions |-> SubSeq(sorted, 1, Min({limit, Len(sorted)}))]

\* The MemoryManager objects that share one sessions file.
Writers == {"first", "second"}

\* A MemoryManager at rest: its current_session_id, and no call under way.
\* During a call it holds the session_data the call has built or loaded and,
\* inside _save_session, the all_sessions it has read.
IdleWriter(session_id) ==
    [current_session_id |-> session_id,
     op |-> "none",
     at |-> "idle",
     session_data |-> _load_session(<<>>, session_id),
     all_sessions |-> <<>>]

\* What a manager has written to its session since it created it.
NothingWritten ==
    [states |-> <<>>, final_answer |-> Unset, overwrote |-> FALSE]

StoreAtRest ==
    /\ now = 0
    /\ writers = [w \in Writers |-> IdleWriter(NoSession)]
    /\ written = [w \in Writers |-> NothingWritten]
    /\ overlapped = FALSE

\* ---------------------------------------------------------- the graph

\* The graph with an edge from search to evaluate.
build_workflow_search_edge(node, state) ==
    CASE node = "START" -> "generate_answer"
      [] node = "generate_answer" -> "evaluate"
      [] node = "evaluate" -> should_continue(state)
      [] node = "search" -> "evaluate"
      [] node = "reflect" -> "generate_answer"
      [] node = "finalize" -> "END"

\* build_workflow: the node after node, the state being the one the node's
\* patch was merged into.
build_workflow(node, state) ==
    CASE node = "START" -> "generate_answer"
      [] node = "generate_answer" -> "evaluate"
      [] node = "evaluate" -> should_continue(state)
      [] node = "search" -> "generate_answer"
      [] node = "reflect" -> "generate_answer"
      [] node = "finalize" -> "END"

\* The sessions file before the run: absent or empty, or holding the
\* session of an earlier, finished run created at instant 0.
EarlierSession ==
    LET created == create_session(<<>>, "What is 1 + 1?", 0, 0)
        logged == log_state(created, SecondOf(0), "finalize",
                            [final_answer |-> Str("two")])
    IN  save_final_answer(logged, SecondOf(0), "two",
                          [final_answer |-> Str("two")])

EarlierStores == {<<>>, EarlierSession}

\* The instants at which create_session of this run may call datetime.now():
\* within the second of the earlier session or in the next.
CreateInstants == {<<1, 1>>, <<1, 2>>, <<2, 2>>}

\* The initial_state of run_qa_workflow; the tests start the graph without
\* "reflections". max_iterations is whatever integer the caller passes.
MaxIterationsChoices == {0 - 1, 0} \cup 1..MaxIterations

\* run_qa_workflow up to workflow.stream: the session is created, result is
\* None.
Init ==
    /\ question = "What is 2 + 2?"
    /\ max_iterations \in MaxIterationsChoices
    /\ iteration_count = 0
    /\ draft_answer = [set |-> FALSE, len |-> 0]
    /\ evaluation = EmptyDict
    /\ final_answer = Unset
    /\ reflections \in {[set |-> b, items |-> <<>>] : b \in BOOLEAN}
    /\ search_results = Unset
    /\ pc = build_workflow("START", EmptyDict)
    /\ failure = "none"
    /\ lastNode = "START"
    /\ response = <<>>
    /\ nGenerate = 0
    /\ nSearch = 0
    /\ nReflect = 0
    /\ nRouted = 0
    /\ \E earlier \in EarlierStores, created \in CreateInstants :
          /\ sessions = create_session(earlier, question,
                                       created[1], created[2])
          /\ current_session_id = SecondOf(created[1])
    /\ result = <<>>
    /\ trace = <<>>
    /\ evaluations = <<>>
    /\ lastSearch = "none"
    /\ StoreAtRest

\* The graph merges a node's patch into the state: the keys of the patch
\* replace the state's, the others stay.
Merge(state, patch) ==
    [key \in DOMAIN state |-> Get(patch, key, state[key])]

\* A completed step of workflow.stream and the body of run_qa_workflow's
\* loop: the patch is merged, stream yields {node_name: patch}, the loop logs
\* the yielded dict and keeps it as result.
Step(node_name, patch) ==
    LET merged == Merge(State, patch)
    IN  /\ question' = merged.question
        /\ max_iterations' = merged.max_iterations
        /\ iteration_count' = merged.iteration_count
        /\ draft_answer' = merged.draft_answer
        /\ evaluation' = merged.evaluation
        /\ final_answer' = merged.final_answer
        /\ reflections' = merged.reflections
        /\ search_results' = merged.search_results
        /\ pc' = build_workflow(node_name, merged)
        /\ lastNode' = node_name
        /\ trace' = Append(trace, node_name)
        /\ result' = <<patch>>
        /\ UNCHANGED <<failure, current_session_id, storeVars>>

\* An exception handler that saves what the run has as its final answer.
Abort_saves_partial(exception) ==
    /\ pc' = "aborted"
    /\ failure' = exception
    /\ result' = <<>>
    /\ sessions' = save_final_answer(sessions, current_session_id,
                                     "partial answer", State)
    /\ UNCHANGED <<question, max_iterations, iteration_count, draft_answer,
                   evaluation, final_answer, reflections, search_results,
                   lastNode, nGenerate, nSearch, nReflect, nRouted,
                   current_session_id, trace, evaluations, lastSearch,
                   storeVars>>

\* An exception leaves workflow.stream: the node's patch is not merged and
\* not yielded, run_qa_workflow prints the error and returns None.
Abort(exception) ==
    /\ pc' = "aborted"
    /\ failure' = exception
    /\ result' = <<>>
    /\ UNCHANGED <<question, max_iterations, iteration_count, draft_answer,
                   evaluation, final_answer, reflections, search_results,
                   lastNode, nGenerate, nSearch, nReflect, nRouted, sessions,
                   current_session_id, trace, evaluations, lastSearch,
                   storeVars>>

Generate ==
    /\ pc = "generate_answer"
    /\ \E draftLen \in RunDraftLengths :
          LET patch == generate_answer_node(State, draftLen)
          IN  /\ Step("generate_answer", patch)
              /\ sessions' = log_state(sessions, current_session_id,
                                       "generate_answer", patch)
    /\ nGenerate' = nGenerate + 1
    /\ UNCHANGED <<response, nSearch, nReflect, nRouted, evaluations,
                   lastSearch>>

\* llm.invoke raises in generate_answer_node.
GenerateFails ==
    /\ pc = "generate_answer"
    /\ Abort("ModelError")
    /\ UNCHANGED response

\* The evaluate node for the model's response text, and the conditional
\* edge, which runs on the merged state.
Evaluate(text) ==
    /\ pc = "evaluate"
    /\ response' = text
    /\ LET returned == evaluate_answer_node(State, text)
           patch == [evaluation |-> returned.evaluation]
           branch == should_continue(Merge(State, patch))
       IN  IF returned.raised # "none" THEN Abort(returned.raised)
           ELSE IF branch = "TypeError" THEN Abort(branch)
           ELSE /\ Step("evaluate", patch)
                /\ sessions' = log_state(sessions, current_session_id,
                                         "evaluate", patch)
                /\ evaluations' = Append(evaluations, patch.evaluation)
                /\ nRouted' = IF branch = "reflect" THEN nRouted + 1 ELSE nRouted
                /\ UNCHANGED <<nGenerate, nSearch, nReflect, lastSearch>>

\* llm.invoke raises in evaluate_answer_node.
EvaluateFails ==
    /\ pc = "evaluate"
    /\ Abort("ModelError")
    /\ UNCHANGED response

Search ==
    /\ pc = "search"
    /\ \E n \in 0..MaxResults :
          LET patch == search_tool_node(State, n)
          IN  /\ Step("search", patch)
              /\ sessions' = log_state(sessions, current_session_id,
                                       "search", patch)
              /\ lastSearch' = IF n = 0 THEN "empty" ELSE "results"
    /\ nSearch' = nSearch + 1
    /\ UNCHANGED <<response, nGenerate, nReflect, nRouted, evaluations>>

\* search.invoke raises, a timeout included: the except branch of
\* search_tool_node.
SearchFails ==
    /\ pc = "search"
    /\ LET patch == search_tool_node_except(State)
       IN  /\ Step("search", patch)
           /\ sessions' = log_state(sessions, current_session_id,
                                    "search", patch)
    /\ lastSearch' = "raised"
    /\ nSearch' = nSearch + 1
    /\ UNCHANGED <<response, nGenerate, nReflect, nRouted, evaluations>>

Reflect ==
    /\ pc = "reflect"
    /\ LET patch == reflection_node(State)
       IN  /\ Step("reflect", patch)
           /\ sessions' = log_state(sessions, current_session_id,
                                    "reflect", patch)
    /\ nReflect' = nReflect + 1
    /\ UNCHANGED <<response, nGenerate, nSearch, nRouted, evaluations,
                   lastSearch>>

\* The finalize step ends the stream; run_qa_workflow then saves the final
\* answer from its result, the dict the last step yielded, when that holds a
\* truthy "final_answer", and returns the result.
Finalize ==
    /\ pc = "finalize"
    /\ \E text \in FinalTexts :
          LET patch == finalize_answer_node(State, text)
              logged == log_state(sessions, current_session_id,
                                  "finalize", patch)
          IN  /\ Step("finalize", patch)
              /\ sessions' =
                    IF Truthy(Get(patch, "final_answer", Unset))
                      THEN save_final_answer(logged, current_session_id,
                                             patch.final_answer.text, patch)
                      ELSE logged
    /\ UNCHANGED <<response, nGenerate, nSearch, nReflect, nRouted,
                   evaluations, lastSearch>>

\* llm.invoke raises in finalize_answer_node.
FinalizeFails ==
    /\ pc = "finalize"
    /\ Abort("ModelError")
    /\ UNCHANGED response

\* The evaluation responses of the model in a run: one record of each kind,
\* prose, and a bare number.
Responses ==
    {<<"LB", m, "RB">> : m \in MemberTokens} \cup {<<"TXT">>, <<"NUM">>}

EvaluateStep == pc = "evaluate" /\ \E text \in Responses : Evaluate(text)

Next ==
    \/ Generate
    \/ GenerateFails
    \/ EvaluateStep
    \/ EvaluateFails
    \/ Search
    \/ SearchFails
    \/ Reflect
    \/ Finalize
    \/ FinalizeFails

Spec == Init /\ [][Next]_vars

\* --------------------------------------------- the parser specification

\* The evaluate step alone, on every text of up to MaxSegments segments, from
\* the states a run is in before its first and its second evaluate step (the
\* second after one rejected draft and one reflection).
Segments ==
    {<<tok>> : tok \in {"FENCE", "LB", "RB", "TXT", "NUM", "KEY", "SLB",
                        "M_HI", "M_LO", "M_PART"}}
    \cup {<<"LB", "M_HI", "RB">>, <<"LB", "M_LO", "RB">>, <<"LB", "M_PART", "RB">>,
          <<"FENCE", "LB", "M_HI", "RB", "FENCE">>,
          <<"FENCE", "LB", "M_PART", "RB", "FENCE">>,
          <<"LB", "KEY", "LB", "KEY", "LB", "RB", "RB">>}

RECURSIVE TextsOf(_)
TextsOf(n) ==
    IF n = 0 THEN {<<>>}
    ELSE LET shorter == TextsOf(n - 1)
         IN  shorter \cup {t \o seg : t \in shorter, seg \in Segments}

Texts == TextsOf(MaxSegments)

\* The steps run_qa_workflow has logged before the evaluate step of state.
ParserSteps(state) ==
    LET last == <<"generate_answer",
                  [draft_answer |-> state.draft_answer,
                   iteration_count |-> state.iteration_count]>>
    IN  IF state.iteration_count = 1 THEN <<last>>
        ELSE << <<"generate_answer",
                  [draft_answer |-> [set |-> TRUE, len |-> 1200],
                   iteration_count |-> 1]>>,
                <<"evaluate", [evaluation |-> state.evaluation]>>,
                <<"reflect", [reflections |-> state.reflections]>>,
                last >>

RECURSIVE LogAll(_, _, _)
LogAll(all_sessions, session_id, steps) ==
    IF steps = <<>> THEN all_sessions
    ELSE LogAll(log_state(all_sessions, session_id, steps[1][1], steps[1][2]),
                session_id, Tail(steps))

InitParser ==
    /\ question = "What is 2 + 2?"
    /\ max_iterations = MaxIterations
    /\ iteration_count \in 1..2
    /\ draft_answer \in {[set |-> TRUE, len |-> n] : n \in DraftLengths}
    /\ evaluation = IF iteration_count = 1 THEN EmptyDict ELSE MemberDict("M_LO")
    /\ final_answer = Unset
    /\ reflections =
          IF iteration_count = 1 THEN [set |-> TRUE, items |-> <<>>]
          ELSE reflection_node(
                  [iteration_count |-> 1, evaluation |-> MemberDict("M_LO"),
                   reflections |-> [set |-> TRUE, items |-> <<>>]]).reflections
    /\ search_results = Unset
    /\ pc = "evaluate"
    /\ failure = "none"
    /\ lastNode = "generate_answer"
    /\ response = IF iteration_count = 1 THEN <<>> ELSE <<"LB", "M_LO", "RB">>
    /\ nGenerate = iteration_count
    /\ nSearch = 0
    /\ nReflect = iteration_count - 1
    /\ nRouted = iteration_count - 1
    /\ current_session_id = SecondOf(2)
    /\ sessions = LogAll(create_session(<<>>, question, 2, 2),
                         current_session_id, ParserSteps(State))
    /\ result = <<ParserSteps(State)[iteration_count * 3 - 2][2]>>
    /\ trace = [i \in 1..(iteration_count * 3 - 2) |-> ParserSteps(State)[i][1]]
    /\ evaluations = IF iteration_count = 1 THEN <<>> ELSE <<MemberDict("M_LO")>>
    /\ lastSearch = "none"
    /\ StoreAtRest

EvaluateText == pc = "evaluate" /\ \E text \in Texts : Evaluate(text)

SpecParser == InitParser /\ [][EvaluateText]_vars

\* ------------------------------------------ runs whose calls all return

\* The steps of a run in which no call of the model raises; the graph runs a
\* node whenever one is due.
NextReturns ==
    \/ Generate
    \/ EvaluateStep
    \/ Search
    \/ SearchFails
    \/ Reflect
    \/ Finalize

FairSpec == Init /\ [][NextReturns]_vars /\ WF_vars(NextReturns)

\* --------------------------------------------- the store specifications

\* The calls of MemoryManager on their own, each in the steps in which it
\* reads and writes sessions.json: create_session builds its session_data;
\* log_state and save_final_answer read the file in _load_session and change
\* the session they loaded; _save_session then reads the file again and
\* writes the collection back.

\* The variables of a run, which the store calls leave alone.
runVars ==
    <<question, max_iterations, iteration_count, draft_answer, evaluation,
      final_answer, reflections, search_results, pc, failure, lastNode,
      response, nGenerate, nSearch, nReflect, nRouted, current_session_id,
      result, trace, evaluations, lastSearch>>

Questions == {"What is 2 + 2?", "What is 1 + 1?"}

\* The node name and state dict of the k-th call of log_state for a session:
\* the patches of generate, evaluate, reflect in turn.
LogInput(k) ==
    CASE k % 3 = 1 ->
            <<"generate_answer",
              [draft_answer |-> [set |-> TRUE, len |-> 1400],
               iteration_count |-> (k + 2) \div 3]>>
      [] k % 3 = 2 -> <<"evaluate", [evaluation |-> MemberDict("M_LO")]>>
      [] OTHER ->
            <<"reflect",
              [reflections |->
                  [set |-> TRUE,
                   items |-> [i \in 1..(k \div 3) |-> "Iteration"]]]>>

\* create_session up to _save_session; the clock may move on between its
\* two calls of datetime.now().
BeginCreate(w, question_text) ==
    /\ writers[w].at = "idle"
    /\ \E nowStamp \in {now, now + 1} :
          /\ nowStamp <= MaxInstant
          /\ now' = nowStamp
          /\ writers' = [writers EXCEPT ![w] =
                [current_session_id |-> SecondOf(now),
                 op |-> "create",
                 at |-> "read",
                 session_data |-> NewSession(question_text, now, nowStamp),
                 all_sessions |-> <<>>]]
    /\ written' = [written EXCEPT ![w] = NothingWritten]
    /\ UNCHANGED <<sessions, overlapped, runVars>>

\* log_state up to _save_session.
BeginLog(w, node_name, state) ==
    /\ writers[w].at = "idle"
    /\ writers[w].current_session_id # NoSession
    /\ Len(written[w].states) < MaxEntries
    /\ writers' = [writers EXCEPT ![w] =
          [@ EXCEPT
              !.op = "log",
              !.at = "read",
              !.session_data =
                  LoggedSession(
                      _load_session(sessions, writers[w].current_session_id),
                      node_name, state)]]
    /\ UNCHANGED <<sessions, now, written, overlapped, runVars>>

\* save_final_answer up to _save_session.
BeginSaveFinal(w, answer) ==
    /\ writers[w].at = "idle"
    /\ writers[w].current_session_id # NoSession
    /\ ~written[w].final_answer.set
    /\ writers' = [writers EXCEPT ![w] =
          [@ EXCEPT
              !.op = "save_final",
              !.at = "read",
              !.session_data =
                  FinalSession(
                      _load_session(sessions, writers[w].current_session_id),
                      answer, [final_answer |-> Str(answer)])]]
    /\ UNCHANGED <<sessions, now, written, overlapped, runVars>>

\* _save_session reads the file.
SaveRead(w) ==
    /\ writers[w].at = "read"
    /\ writers' = [writers EXCEPT ![w] =
          [@ EXCEPT !.at = "write", !.all_sessions = sessions]]
    /\ UNCHANGED <<sessions, now, written, overlapped, runVars>>

\* _save_session writes the collection it read, with the session replaced
\* or added; the call returns.
SaveWrite(w) ==
    LET self == writers[w]
    IN  /\ self.at = "write"
        /\ sessions' = _save_session(self.all_sessions, self.session_data)
        /\ overlapped' = (overlapped \/ self.all_sessions # sessions)
        /\ written' = [written EXCEPT ![w] =
              [states |-> IF self.op = "log"
                            THEN Append(@.states,
                                   self.session_data.states[
                                      Len(self.session_data.states)])
                            ELSE @.states,
               final_answer |-> IF self.op = "save_final"
                                  THEN self.session_data.final_answer
                                  ELSE @.final_answer,
               overwrote |->
                  IF self.op = "create"
                    THEN \E i \in 1..Len(self.all_sessions) :
                            self.all_sessions[i].session_id
                               = self.current_session_id
                    ELSE @.overwrote]]
        /\ writers' = [writers EXCEPT ![w] = IdleWriter(self.current_session_id)]
        /\ UNCHANGED <<now, runVars>>

\* Time passes.
Tick ==
    /\ now < MaxInstant
    /\ now' = now + 1
    /\ UNCHANGED <<sessions, writers, written, overlapped, runVars>>

\* No run is under way; the sessions file is absent.
InitStore ==
    /\ question = "What is 2 + 2?"
    /\ max_iterations = MaxIterations
    /\ iteration_count = 0
    /\ draft_answer = [set |-> FALSE, len |-> 0]
    /\ evaluation = EmptyDict
    /\ final_answer = Unset
    /\ reflections = [set |-> TRUE, items |-> <<>>]
    /\ search_results = Unset
    /\ pc = "store"
    /\ failure = "none"
    /\ lastNode = "START"
    /\ response = <<>>
    /\ nGenerate = 0
    /\ nSearch = 0
    /\ nReflect = 0
    /\ nRouted = 0
    /\ sessions = <<>>
    /\ current_session_id = NoSession
    /\ result = <<>>
    /\ trace = <<>>
    /\ evaluations = <<>>
    /\ lastSearch = "none"
    /\ StoreAtRest

\* One manager alone: a run after another, each with its session.
Create == \E question_text \in Questions : BeginCreate("first", question_text)

Log ==
    LET input == LogInput(Len(written["first"].states) + 1)
    IN  BeginLog("first", input[1], input[2])

SaveFinal == BeginSaveFinal("first", "polished answer")

NextStore ==
    \/ Create
    \/ Log
    \/ SaveFinal
    \/ SaveRead("first")
    \/ SaveWrite("first")
    \/ Tick

SpecStore == InitStore /\ [][NextStore]_vars

\* Two managers, each with a session of its own second, whose calls
\* interleave at the reads and the writes of sessions.json.
QuestionOf(w) == IF w = "first" THEN "What is 2 + 2?" ELSE "What is 1 + 1?"

CreateOwn(w) ==
    /\ writers[w].current_session_id = NoSession
    /\ \A v \in Writers : writers[v].current_session_id # SecondOf(now)
    /\ BeginCreate(w, QuestionOf(w))
    /\ now' = now

LogOwn(w) ==
    LET input == LogInput(Len(written[w].states) + 1)
    IN  BeginLog(w, input[1], input[2])

SaveFinalOwn(w) == BeginSaveFinal(w, "polished answer")

\* Nothing reads the clock once both sessions are created.
TickUntilCreated ==
    /\ \E w \in Writers : writers[w].current_session_id = NoSession
    /\ Tick

NextWriters ==
    \/ \E w \in Writers : CreateOwn(w)
    \/ \E w \in Writers : LogOwn(w)
    \/ \E w \in Writers : SaveFinalOwn(w)
    \/ \E w \in Writers : SaveRead(w)
    \/ \E w \in Writers : SaveWrite(w)
    \/ TickUntilCreated

SpecWriters == InitStore /\ [][NextWriters]_vars

\* ------------------------------------------------------------ the claims

Terminated == pc \in {"END", "aborted"}

\* C1: when a run started with max_iterations >= 1 has terminated,
\* iteration_count is at most max_iterations and equals the number of
\* generate steps that were executed.
C1_IterationBound ==
    (max_iterations >= 1 /\ Terminated) =>
        /\ iteration_count <= max_iterations
        /\ iteration_count = nGenerate

\* A run that used its whole budget of at least two iterations and finalized.
C1_Witness ==
    /\ pc = "END"
    /\ max_iterations >= 2
    /\ iteration_count = max_iterations
    /\ nGenerate = max_iterations

\* C2: every run in which each call of the model and of the search returns
\* eventually executes finalize and reaches END, whatever the evaluation
\* responses are.
C2_EveryRunFinalizes == <>(pc = "END" /\ final_answer.set)

\* The router of the specification: the four rules in order, search_results
\* counting as set whatever its value.
ReferenceRoute(state) ==
    IF state.iteration_count >= state.max_iterations THEN "finalize"
    ELSE IF state.evaluation.is_acceptable /\ state.evaluation.score.t = "int"
            /\ state.evaluation.score.v >= 7 THEN "finalize"
    ELSE IF state.evaluation.needs_search /\ ~state.search_results.set THEN "search"
    ELSE "reflect"

\* C3: in every state the router was called on, the branch it returned is
\* the one the four rules give, also when search_results is set to an empty
\* value.
C3_RouterMatchesReference ==
    (lastNode = "evaluate" /\ pc \in {"search", "reflect", "finalize"}) =>
        pc = ReferenceRoute(State)

\* C4: the search step is executed at most once per run.
C4_SearchAtMostOnce == nSearch <= 1

\* C5: an evaluation with needs_search that is not acceptable, with
\* search_results unset and iteration_count < max_iterations, is followed by
\* search; once search_results is set, an evaluation with needs_search is
\* never followed by search.
C5_NoSearchOnceSet ==
    lastNode = "evaluate" /\ pc # "aborted" /\ evaluation.needs_search =>
        /\ (~search_results.set /\ ~evaluation.is_acceptable
            /\ iteration_count < max_iterations) => pc = "search"
        /\ search_results.set => pc # "search"

\* C6: the first step is generate; generate is followed by evaluate;
\* evaluate by the one of search, reflect and finalize the router returns;
\* search and reflect by generate; finalize by no step. (A step that raises
\* ends the run.)
C6_FixedEdges ==
    /\ pc = "generate_answer"
    /\ [][/\ pc = "generate_answer" => pc' \in {"evaluate", "aborted"}
          /\ pc = "evaluate" =>
                \/ pc' = "aborted"
                \/ /\ pc' \in {"search", "reflect", "finalize"}
                   /\ pc' = should_continue(State')
          /\ pc \in {"search", "reflect"} => pc' = "generate_answer"
          /\ pc = "finalize" => pc' \in {"END", "aborted"}
          /\ ~Terminated]_vars

\* A finished run in which search, reflect and finalize each followed an
\* evaluate.
C6_Witness == pc = "END" /\ nSearch >= 1 /\ nReflect >= 1

\* C7: final_answer is non-null exactly when finalize has completed; only
\* finalize writes it, and no step runs once it is written.
C7_FinalAnswerOnce ==
    /\ [](final_answer.set <=> pc = "END")
    /\ [][/\ final_answer' # final_answer => pc = "finalize"
          /\ ~final_answer.set]_vars

\* A run that finalized after a rejected draft, with an empty final text.
C7_Witness == final_answer.set /\ final_answer.text = "" /\ nReflect >= 1

IsPrefix(s, t) == Len(s) <= Len(t) /\ SubSeq(t, 1, Len(s)) = s

\* C8: reflections only grows, by one entry per reflect step and by no other
\* step, and after termination its length is the number of times the router
\* selected reflect.
C8_ReflectionsCount ==
    /\ [](Terminated => Len(reflections.items) = nRouted)
    /\ [][/\ IsPrefix(reflections.items, reflections'.items)
          /\ Len(reflections'.items) =
                Len(reflections.items) + (IF pc = "reflect" THEN 1 ELSE 0)]_vars

\* A finished run with two reflections, started without "reflections".
C8_Witness ==
    pc = "END" /\ Len(reflections.items) = 2 /\ nRouted = 2

\* The parser of the specification: the attempts in order, the first that
\* yields a record with score and is_acceptable wins.
HasKeys(value) ==
    value.kind = "dict" /\ {"score", "is_acceptable"} \subseteq value.d.keys

ReferenceParse(text) ==
    IF HasKeys(AttemptFenced(text)) THEN AttemptFenced(text)
    ELSE IF HasKeys(AttemptBraces(text)) THEN AttemptBraces(text)
    ELSE IF HasKeys(AttemptWhole(text)) THEN AttemptWhole(text)
    ELSE NoneValue

\* The fallback record of the specification.
ReferenceFallback(draftLen, iteration) ==
    LET q == draftLen \div 200
        score == IF q < 5 THEN 5 ELSE IF q > 10 THEN 10 ELSE q
    IN  [keys |-> AllKeys,
         score |-> IntScore(score),
         is_acceptable |-> (iteration >= 2 \/ score >= 7),
         strengths |-> <<"Answer provided">>,
         weaknesses |-> IF score >= 7 THEN <<>> ELSE <<"Could be more detailed">>,
         suggestions |-> IF score >= 7 THEN <<>> ELSE <<"Add more examples">>,
         needs_search |-> FALSE]

\* C9: when the response cannot be parsed into a record with score and
\* is_acceptable, the evaluate step does not fail and stores the fallback
\* record.
C9_UnparseableGivesFallback ==
    LET unparseable == ReferenceParse(response).kind = "none"
    IN  /\ (pc = "aborted" /\ failure = "TypeError") => ~unparseable
        /\ (lastNode = "evaluate" /\ unparseable) =>
              evaluation = ReferenceFallback(draft_answer.len, iteration_count)

\* C10: the evaluation stored is the record of the first of the three
\* attempts that yields a record with score and is_acceptable, an earlier
\* attempt that parses to a record without them notwithstanding, and the
\* fallback only when no attempt yields one.
C10_FirstRecordWins ==
    lastNode = "evaluate" =>
        evaluation =
            IF ReferenceParse(response).kind = "dict"
              THEN ReferenceParse(response).d
              ELSE ReferenceFallback(draft_answer.len, iteration_count)

\* The places of a text at which a well-formed evaluation record stands: a
\* brace pair around the members of a record with all five keys and an
\* integer score.
WellFormedMembers ==
    {m \in MemberTokens :
        /\ {"score", "is_acceptable", "strengths", "weaknesses", "suggestions"}
              \subseteq MemberDict(m).keys
        /\ MemberDict(m).score.t = "int"}

EmbeddedAt(text) ==
    {i \in 1..(Len(text) - 2) :
        /\ text[i] = "LB"
        /\ text[i + 1] \in WellFormedMembers
        /\ text[i + 2] = "RB"}

\* C11: when the response embeds one well-formed record in surrounding text,
\* braces and fenced blocks included, the evaluate step does not fail and the
\* evaluation it stores has the score and is_acceptable of that record.
C11_EmbeddedRecordRoundTrip ==
    \A i \in EmbeddedAt(response) :
        EmbeddedAt(response) = {i} =>
            /\ pc # "aborted"
            /\ lastNode = "evaluate" =>
                  /\ evaluation.score = MemberDict(response[i + 1]).score
                  /\ evaluation.is_acceptable =
                        MemberDict(response[i + 1]).is_acceptable

\* C12: after a search step whose collaborator raised, timed out or returned
\* nothing, search_results is "Search unavailable" and generate is due next.
C12_SearchFailureGivesSentinel ==
    (lastNode = "search" /\ lastSearch \in {"raised", "empty"}) =>
        /\ search_results = Str("Search unavailable")
        /\ pc = "generate_answer"

\* The session of the run in the sessions file.
CurrentSession == _load_session(sessions, current_session_id)

\* C13: a failure of the model in generate, evaluate or finalize ends the
\* run, no step follows it; the caller gets None and the state holds no
\* final_answer, the session's final_answer stays null, and the failing step
\* leaves the sessions file, the entries logged before it included, as it
\* was.
C13_ModelFailureAborts ==
    /\ [](failure = "ModelError" =>
            /\ pc = "aborted"
            /\ result = <<>>
            /\ ~final_answer.set
            /\ ~CurrentSession.final_answer.set
            /\ CurrentSession.complete_state = <<>>
            /\ Len(CurrentSession.states) = Len(trace))
    /\ [][failure' = "ModelError" => sessions' = sessions]_vars
    /\ [][pc # "aborted"]_vars

C13_Witness ==
    /\ failure = "ModelError"
    /\ lastNode = "evaluate"
    /\ Len(CurrentSession.states) >= 5
    /\ CurrentSession.states[5].node = "evaluate"

\* C14: once the run's session has been created, logged to and given its
\* final answer, get_session_history(1) returns that session: its question
\* is the question created with and its final_answer the answer saved.
C14_StoreRoundTrip ==
    (pc = "END" /\ Truthy(final_answer)) =>
        LET recent == get_session_history(sessions, 1)
        IN  /\ recent.raised = "none"
            /\ Len(recent.sessions) = 1
            /\ recent.sessions[1].session_id = current_session_id
            /\ recent.sessions[1].question = question
            /\ recent.sessions[1].final_answer = final_answer
            /\ Len(recent.sessions[1].states) >= 1

C14_Witness ==
    /\ pc = "END"
    /\ Truthy(final_answer)
    /\ Len(sessions) = 2
    /\ sessions[1].final_answer = Str("two")
    /\ get_session_history(sessions, 1).sessions[1].final_answer = final_answer

\* C15: after every logged step the session's metadata agrees with the
\* running state: total_iterations is iteration_count, search_used tells
\* whether search_results is set, reflection_count is the length of
\* reflections, and the last entry's iteration is iteration_count.
C15_MetadataAgrees ==
    lastNode # "START" =>
        LET session == CurrentSession
            entry == session.states[Len(session.states)]
        IN  /\ session.metadata.total_iterations = iteration_count
            /\ session.metadata.search_used = search_results.set
            /\ session.metadata.reflection_count = Len(reflections.items)
            /\ entry.iteration = iteration_count

\* C16: when the run has ended after finalize, the record the caller gets
\* carries question, max_iterations, iteration_count, draft_answer,
\* evaluation, reflections and final_answer with their values in the running
\* state, and the complete_state saved with the final answer has the run's
\* question and iteration_count.
C16_CallerGetsMergedState ==
    pc = "END" =>
        /\ Len(result) = 1
        /\ \A key \in {"question", "max_iterations", "iteration_count",
                       "draft_answer", "evaluation", "reflections",
                       "final_answer"} :
              key \in DOMAIN result[1] /\ result[1][key] = State[key]
        /\ CurrentSession.final_answer.set =>
              /\ Len(CurrentSession.complete_state) = 1
              /\ CurrentSession.complete_state[1].question = Str(question)
              /\ CurrentSession.complete_state[1].iterations
                    = <<iteration_count>>

\* C17: every evaluation the evaluate step stores, parsed or fallback, has
\* the keys score, is_acceptable, strengths, weaknesses and suggestions, and
\* an integer score in 1..10.
C17_EvaluationShape ==
    \A i \in 1..Len(evaluations) :
        /\ {"score", "is_acceptable", "strengths", "weaknesses", "suggestions"}
              \subseteq evaluations[i].keys
        /\ evaluations[i].score.t = "int"
        /\ evaluations[i].score.v \in 1..10

\* The steps of a run of n generate/evaluate cycles with a reflect step
\* between two cycles and finalize at the end.
RECURSIVE CycleTrace(_)
CycleTrace(n) ==
    IF n <= 1 THEN <<"generate_answer", "evaluate">>
    ELSE CycleTrace(n - 1) \o <<"reflect", "generate_answer", "evaluate">>

AllRejected ==
    \A i \in 1..Len(evaluations) :
        ~evaluations[i].is_acceptable /\ ~evaluations[i].needs_search

\* C18: in a run with max_iterations = N >= 1 all of whose evaluations are
\* not acceptable with needs_search false, no search step runs and the steps
\* are a prefix of N generate/evaluate cycles with a reflect step between
\* two cycles, then finalize; a finished run has made all N cycles and N - 1
\* reflections, its final_answer is non-null and its evaluation not
\* acceptable.
C18_RejectedRunShape ==
    (max_iterations >= 1 /\ AllRejected) =>
        /\ nSearch = 0
        /\ IsPrefix(trace, CycleTrace(max_iterations) \o <<"finalize">>)
        /\ pc = "END" =>
              /\ trace = CycleTrace(max_iterations) \o <<"finalize">>
              /\ nGenerate = max_iterations
              /\ Len(evaluations) = max_iterations
              /\ nReflect = max_iterations - 1
              /\ iteration_count = max_iterations
              /\ Len(reflections.items) = max_iterations - 1
              /\ final_answer.set
              /\ ~evaluation.is_acceptable

C18_Witness ==
    /\ pc = "END"
    /\ AllRejected
    /\ max_iterations = 3
    /\ nReflect = 2
    /\ Len(evaluations) = 3

\* C19: in a run with max_iterations >= 1 whose first evaluation is
\* acceptable with a score of 7 or more, finalize follows the first evaluate
\* step: the run has one generate and one evaluate step, no search and no
\* reflect step, and iteration_count is 1 when it ends.
C19_AcceptedFirstShape ==
    (/\ max_iterations >= 1
     /\ Len(evaluations) >= 1
     /\ evaluations[1].is_acceptable
     /\ evaluations[1].score.t = "int"
     /\ evaluations[1].score.v >= 7) =>
        /\ pc \in {"finalize", "END", "aborted"}
        /\ IsPrefix(trace, <<"generate_answer", "evaluate", "finalize">>)
        /\ nGenerate = 1
        /\ Len(evaluations) = 1
        /\ nSearch = 0
        /\ nReflect = 0
        /\ iteration_count = 1
        /\ pc = "END" =>
              /\ trace = <<"generate_answer", "evaluate", "finalize">>
              /\ final_answer.set

C19_Witness ==
    /\ pc = "END"
    /\ max_iterations = 2
    /\ evaluations = <<MemberDict("M_HI")>>
    /\ iteration_count = 1

\* C20: every step leaves question and max_iterations as they are and never
\* lowers iteration_count; generate changes draft_answer and iteration_count
\* only, the latter by +1, search changes search_results only, evaluate
\* evaluation only, reflect reflections only, finalize final_answer only, and
\* a step that fails changes no field.
C20_Frame ==
    [][/\ question' = question
       /\ max_iterations' = max_iterations
       /\ iteration_count' >= iteration_count
       /\ iteration_count' # iteration_count => pc = "generate_answer"
       /\ pc' = "aborted" =>
             UNCHANGED <<iteration_count, draft_answer, evaluation,
                         final_answer, reflections, search_results>>
       /\ (pc' # "aborted" /\ pc = "generate_answer") =>
             /\ iteration_count' = iteration_count + 1
             /\ UNCHANGED <<evaluation, final_answer, reflections,
                            search_results>>
       /\ (pc' # "aborted" /\ pc = "search") =>
             UNCHANGED <<iteration_count, draft_answer, evaluation,
                         final_answer, reflections>>
       /\ (pc' # "aborted" /\ pc = "evaluate") =>
             UNCHANGED <<iteration_count, draft_answer, final_answer,
                         reflections, search_results>>
       /\ (pc' # "aborted" /\ pc = "reflect") =>
             UNCHANGED <<iteration_count, draft_answer, evaluation,
                         final_answer, search_results>>
       /\ (pc' # "aborted" /\ pc = "finalize") =>
             UNCHANGED <<iteration_count, draft_answer, evaluation,
                         reflections, search_results>>]_vars

C20_Witness ==
    /\ lastNode = "finalize"
    /\ Truthy(search_results)
    /\ Len(reflections.items) >= 1
    /\ iteration_count = 3
    /\ final_answer.set

\* The node names of the entries of a session, in order.
NodesOf(session) == [i \in 1..Len(session.states) |-> session.states[i].node]

\* C21: at every point of a run the entries of its session name the steps
\* completed so far, once each and in execution order; each completed step
\* adds its entry before the next step starts, and after a finished run the
\* last entry is finalize.
C21_EveryStepLoggedOnce ==
    /\ [](/\ NodesOf(CurrentSession) = trace
          /\ Len(CurrentSession.states) = nGenerate + Len(evaluations)
                + nSearch + nReflect + (IF pc = "END" THEN 1 ELSE 0)
          /\ pc = "END" => trace[Len(trace)] = "finalize")
    /\ [][lastNode' # lastNode \/ trace' # trace =>
            /\ trace' = Append(trace, lastNode')
            /\ CurrentSession'.states
                  = Append(CurrentSession.states,
                           CurrentSession'.states[Len(trace')])]_vars

C21_Witness ==
    /\ pc = "END"
    /\ Len(CurrentSession.states) = 9
    /\ nSearch = 1
    /\ nReflect = 1
    /\ NodesOf(CurrentSession)[9] = "finalize"

\* The session of a manager in the sessions file.
CurrentStored(w) == _load_session(sessions, writers[w].current_session_id)

\* The places of the sessions with an id in a collection.
PlacesOf(all_sessions, session_id) ==
    {i \in 1..Len(all_sessions) : all_sessions[i].session_id = session_id}

\* C22: when create_session writes a session whose id a session of the file
\* has, the file afterwards holds one session with that id, at the same
\* place, with the new question, no states and a null final_answer, and the
\* other sessions are as they were.
C22_CreateOverwrites ==
    [][LET self == writers["first"]
           id == self.current_session_id
       IN  (/\ self.op = "create"
            /\ self.at = "write"
            /\ writers'["first"].at = "idle"
            /\ PlacesOf(sessions, id) # {}) =>
              /\ Len(sessions') = Len(sessions)
              /\ PlacesOf(sessions', id) = PlacesOf(sessions, id)
              /\ Cardinality(PlacesOf(sessions', id)) = 1
              /\ \A i \in 1..Len(sessions) :
                    IF sessions[i].session_id = id
                      THEN /\ sessions'[i].question = self.session_data.question
                           /\ sessions'[i].states = <<>>
                           /\ ~sessions'[i].final_answer.set
                           /\ sessions'[i].complete_state = <<>>
                      ELSE sessions'[i] = sessions[i]]_vars

C22_Witness ==
    /\ written["first"].overwrote
    /\ writers["first"].at = "idle"
    /\ Len(sessions) = 2
    /\ CurrentStored("first").question = "What is 1 + 1?"
    /\ CurrentStored("first").states = <<>>

\* C23: with one manager writing, no two sessions of the file share an id
\* and the states of the manager's session are the entries it has logged
\* since it created the session, in call order; a write of log_state adds
\* one entry to that session, a write of save_final_answer changes its
\* final_answer and complete_state only, and every write leaves the other
\* sessions as they were.
C23_SingleWriterWrites ==
    /\ [](LET self == writers["first"]
              id == self.current_session_id
          IN  /\ \A i, j \in 1..Len(sessions) :
                    sessions[i].session_id = sessions[j].session_id => i = j
              /\ (id # NoSession /\ self.op # "create") =>
                    /\ CurrentStored("first").states = written["first"].states
                    /\ CurrentStored("first").final_answer
                          = written["first"].final_answer)
    /\ [][LET self == writers["first"]
              id == self.current_session_id
          IN  (self.at = "write" /\ writers'["first"].at = "idle") =>
                /\ \A i \in 1..Len(sessions) :
                      sessions[i].session_id # id => sessions'[i] = sessions[i]
                /\ self.op # "create" =>
                      /\ Len(sessions') = Len(sessions)
                      /\ PlacesOf(sessions', id) = PlacesOf(sessions, id)
                /\ self.op = "log" =>
                      /\ Len(CurrentStored("first")'.states)
                            = Len(CurrentStored("first").states) + 1
                      /\ IsPrefix(CurrentStored("first").states,
                                  CurrentStored("first")'.states)
                      /\ CurrentStored("first")' =
                            [CurrentStored("first") EXCEPT
                                !.states = CurrentStored("first")'.states,
                                !.metadata = CurrentStored("first")'.metadata]
                /\ self.op = "save_final" =>
                      CurrentStored("first")' =
                         [CurrentStored("first") EXCEPT
                             !.keys = @ \cup {"final_answer", "complete_state"},
                             !.final_answer =
                                 CurrentStored("first")'.final_answer,
                             !.complete_state =
                                 CurrentStored("first")'.complete_state]]_vars

C23_Witness ==
    /\ writers["first"].at = "idle"
    /\ Len(sessions) = 2
    /\ Len(CurrentStored("first").states) = 2
    /\ CurrentStored("first").states[2].node = "evaluate"
    /\ CurrentStored("first").final_answer.set
    /\ \E i \in 1..2 :
          /\ sessions[i].session_id # writers["first"].current_session_id
          /\ Len(sessions[i].states) = 2

\* A manager at rest whose session in the file lacks something the manager
\* wrote: the session itself, a logged entry or the final answer.
Lost(w) ==
    /\ writers[w].at = "idle"
    /\ writers[w].current_session_id # NoSession
    /\ \/ "timestamp" \notin CurrentStored(w).keys
       \/ CurrentStored(w).states # written[w].states
       \/ CurrentStored(w).final_answer # written[w].final_answer

\* C24: two managers sharing the file can lose updates, and only by
\* interleaving: whenever something a manager wrote is absent from the file,
\* some collection was written back after another write had changed the file
\* since it was read.
C24_LossNeedsOverlap == \A w \in Writers : Lost(w) => overlapped

C24_Witness ==
    \E w \in Writers :
        /\ Lost(w)
        /\ \A v \in Writers : writers[v].at = "idle"
        /\ "timestamp" \in CurrentStored(w).keys
        /\ Len(written[w].states) = 2
        /\ Len(CurrentStored(w).states) = 1

\* The loop invariant without its bound on the reflections of a finished run.
LoopCounts ==
    /\ lastNode = "evaluate" => iteration_count = 1 + nReflect + nSearch
    /\ pc \in {"search", "reflect"} => iteration_count < max_iterations
    /\ lastNode \in {"search", "reflect"} =>
          \/ pc = "generate_answer"
          \/ pc = "aborted" /\ failure = "ModelError"
    /\ Len(reflections.items) = nReflect

\* C25 as stated: after every evaluate step iteration_count is 1 + the
\* reflect steps + the search steps so far, search and reflect are due only
\* while iteration_count < max_iterations and generate is the step after
\* them (which a failure of the model may end), and a terminated run has at
\* most max_iterations - 1 reflections.
C25_LoopInvariant ==
    /\ LoopCounts
    /\ Terminated => Len(reflections.items) <= max_iterations - 1

\* C25, amended: the bound of max_iterations - 1 reflections is that of runs
\* with max_iterations >= 1; a run with max_iterations <= 0 ends with none.
C25_LoopInvariantFromOne ==
    /\ LoopCounts
    /\ Terminated =>
          Len(reflections.items)
             <= (IF max_iterations >= 1 THEN max_iterations - 1 ELSE 0)

C25_Witness ==
    /\ lastNode = "evaluate"
    /\ iteration_count = 3
    /\ nReflect = 1
    /\ nSearch = 1
    /\ pc = "finalize"

\* The fallback records of evaluate_answer_node.
IsFallbackRecord(ev) ==
    \E draftLen \in DraftLengths, iteration \in 1..(MaxIterations + 1) :
        ev = FallbackEvaluation(
                [iteration_count |-> iteration,
                 draft_answer |-> [set |-> TRUE, len |-> draftLen]])

AllShortFallbacks ==
    /\ evaluations # <<>>
    /\ \A i \in 1..Len(evaluations) :
          IsFallbackRecord(evaluations[i]) /\ evaluations[i].score.v < 7

\* After an evaluate step that stored a fallback record search is not due,
\* and below the iteration bound finalize is due exactly when the draft has
\* 1400 characters or more, reflect otherwise.
FallbackRouting ==
    (lastNode = "evaluate" /\ pc # "aborted" /\ IsFallbackRecord(evaluation)) =>
        /\ pc # "search"
        /\ evaluation.score.v >= 7 <=> draft_answer.len >= 1400
        /\ iteration_count < max_iterations =>
              /\ pc = "finalize" <=> draft_answer.len >= 1400
              /\ pc = "reflect" <=> draft_answer.len < 1400

\* C26 as stated: the routing after a fallback record, and a finished run
\* all of whose evaluations are fallbacks of drafts shorter than 1400
\* characters ends at iteration_count = max_iterations after
\* max_iterations - 1 reflect steps.
C26_FallbackRunsToBound ==
    /\ FallbackRouting
    /\ (pc = "END" /\ AllShortFallbacks) =>
          /\ iteration_count = max_iterations
          /\ nReflect = max_iterations - 1
          /\ nSearch = 0

\* C26, amended: such a run ends at the bound when max_iterations >= 1; with
\* max_iterations <= 0 it ends after its first evaluation, at iteration_count
\* 1 and without a reflect step.
C26_FallbackRunsToBoundFromOne ==
    /\ FallbackRouting
    /\ (pc = "END" /\ AllShortFallbacks) =>
          /\ iteration_count = (IF max_iterations >= 1 THEN max_iterations ELSE 1)
          /\ nReflect = iteration_count - 1
          /\ nSearch = 0
          /\ Len(evaluations) = iteration_count

C26_Witness ==
    /\ pc = "END"
    /\ AllShortFallbacks
    /\ max_iterations = 3
    /\ Len(evaluations) = 3
    /\ evaluations[2].is_acceptable
    /\ evaluations[2].score.v = 5

\* C27: a run started with max_iterations <= 0 is accepted; it makes at most
\* one generate step, no search and no reflect step, finalize is the step
\* after its evaluation, and a finished run is generate, evaluate, finalize
\* with iteration_count = 1, above max_iterations.
C27_NonPositiveBound ==
    max_iterations <= 0 =>
        /\ nGenerate <= 1 /\ nSearch = 0 /\ nReflect = 0
        /\ iteration_count = nGenerate
        /\ pc \notin {"search", "reflect"}
        /\ Len(trace) <= 3
        /\ (lastNode = "evaluate" /\ pc # "aborted") => pc = "finalize"
        /\ pc = "END" =>
              /\ trace = <<"generate_answer", "evaluate", "finalize">>
              /\ iteration_count = 1
              /\ iteration_count > max_iterations
              /\ Len(evaluations) = 1

\* A finished run with a negative max_iterations whose only evaluation was
\* a rejection.
C27_Witness ==
    /\ max_iterations < 0
    /\ pc = "END"
    /\ iteration_count = 1
    /\ Len(evaluations) = 1
    /\ ~evaluations[1].is_acceptable
    /\ final_answer.set

====
